---- MODULE Spec2Model ----
(***************************************************************************)
(* Booking lifecycle engine of the Enoriel car marketplace:                *)
(* cars/models.py (CarBooking, BookingMessage, BookingActivity),           *)
(* cars/views.py (customer requests) and cars/admin.py (admin bulk         *)
(* actions).  Every request runs to completion before the next starts.     *)
(*                                                                         *)
(* Timestamps are values of a logical clock: every timezone.now() whose    *)
(* result is stored takes the next clock value, so stored timestamps are   *)
(* ordered as the calls that produced them.                                *)
(***************************************************************************)
EXTENDS Integers, Sequences, FiniteSets, TLC

\* ---------------------------------------------------------------- bounds
MaxRequests == 5        \* state-changing requests served in one run
BookingSlots == {1, 2}  \* ids the bookings of a run can take

\* ------------------------------------------------------- value encodings
None == 0          \* a null DateTimeField / DateField / foreign key
NoPrice == -1      \* a null DecimalField
BadNumber == -2    \* a POST string float() cannot parse
Missing == "<missing>"   \* request.POST.get(...) of an absent key
BadDate == -1      \* a date string strptime / DateField cannot parse

CarIds == {1}
UnknownCar == 2
CarPrice == [c \in CarIds |-> 20]

\* BOOKING_STATUS_CHOICES
BOOKING_STATUS_CHOICES ==
    {"interest_shown", "inspection_scheduled", "payment_scheduled",
     "payment_confirmed", "completed", "cancelled"}

VARIABLES
    now,         \* last clock value handed out
    car_sold,    \* Car.is_sold, per car
    sold_cars,   \* SoldCar rows in insertion order
    inquiries,   \* CarInquiry rows, by id (sequence index)
    bookings,    \* CarBooking rows, by id (sequence index)
    messages,    \* BookingMessage rows in insertion (= created_at) order
    activities,  \* BookingActivity rows in insertion (= created_at) order
    served,      \* number of requests so far that changed the stored state
    slots,       \* the booking ids this run may use (fixed by Init)
    ret,         \* what the last request returned to its caller
    inflight     \* the request that has loaded its booking and not yet written

vars == <<now, car_sold, sold_cars, inquiries, bookings, messages, activities, served, slots, ret, inflight>>

\* The stored state as one value, so a request is a function DB -> DB.
DB == [now |-> now, car_sold |-> car_sold, sold_cars |-> sold_cars,
       inquiries |-> inquiries,
       bookings |-> bookings, messages |-> messages, activities |-> activities]

\* ret is write-only: no handler reads it, so what can follow a request that
\* wrote nothing is exactly what can follow the state it was made in.  A run is
\* therefore explored up to its first such request, and up to its first
\* request that ended in a storage failure.
Serving == ret.changed /\ ret.out # "storage_error"

\* The writes of a request are stored and r is returned.
Store(db, r) ==
    /\ Serving
    /\ IF db = DB THEN UNCHANGED served
       ELSE served < MaxRequests /\ served' = served + 1
    /\ ret' = [r EXCEPT !.changed = (db # DB)]
    /\ UNCHANGED slots
    /\ now' = db.now
    /\ car_sold' = db.car_sold
    /\ sold_cars' = db.sold_cars
    /\ inquiries' = db.inquiries
    /\ bookings' = db.bookings
    /\ messages' = db.messages
    /\ activities' = db.activities

\* The request ends, having run from its load to its last write with no
\* other request in between.
Commit(db, r) ==
    /\ Store(db, r)
    /\ UNCHANGED inflight

BookingIds == 1..Len(bookings)

\* ------------------------------------------------------ CarBooking model

\* CarBooking.progress_percentage
progress_percentage(bk) ==
    CASE bk.status = "interest_shown" -> 20
      [] bk.status = "inspection_scheduled" -> 40
      [] bk.status = "payment_scheduled" -> 60
      [] bk.status = "payment_confirmed" -> 80
      [] bk.status = "completed" -> 100
      [] bk.status = "cancelled" -> 0
      [] OTHER -> 0

\* Python truthiness of a Decimal-or-None: None and 0 are falsy.
Truthy(price) == price # NoPrice /\ price # 0

\* CarBooking.final_price: self.negotiated_price or self.car.price
final_price(bk) ==
    IF Truthy(bk.negotiated_price) THEN bk.negotiated_price ELSE CarPrice[bk.car]

\* f"{x:,.0f}": amounts are kept in units of 50 kobo; the format prints whole
\* naira, rounding a half to the even neighbour.
FormatNaira(p) ==
    LET k == p \div 2
    IN IF p % 2 = 0 THEN k ELSE IF k % 2 = 0 THEN k ELSE k + 1

\* faulty variant: the listed price is printed, whatever was negotiated
formatted_list_price(bk) == FormatNaira(CarPrice[bk.car])

\* CarBooking.formatted_final_price
formatted_final_price(bk) == FormatNaira(final_price(bk))

\* CarBooking.unread_count_for_admin
unread_count_for_admin(db, b) ==
    LET bk == db.bookings[b]
        mine == {i \in 1..Len(db.messages) : db.messages[i].booking = b
                                             /\ ~db.messages[i].is_from_admin}
    IN IF bk.last_admin_response = None
       THEN Cardinality(mine)
       ELSE Cardinality({i \in mine :
                           db.messages[i].created_at > bk.last_admin_response})


\* CarBooking.has_unread_messages; the timezone.now() it falls back on is
\* read when the property is evaluated, later than every stored timestamp.
has_unread_messages(db, b) ==
    LET bk == db.bookings[b]
        since == IF bk.last_customer_message # None
                 THEN bk.last_customer_message
                 ELSE db.now + 1
    IN IF bk.last_admin_response = None
       THEN FALSE
       ELSE \E i \in 1..Len(db.messages) :
               /\ db.messages[i].booking = b
               /\ db.messages[i].is_from_admin
               /\ db.messages[i].created_at > since

\* ---------------------------------------------------------- row builders

\* A message text: the template it was rendered from and the values put in.
Body(kind) ==
    [kind |-> kind, text |-> "", date |-> None, h12 |-> 0, pm |-> FALSE,
     loc |-> "", price |-> NoPrice, method |-> ""]

\* BookingActivity row; performed_by and is_visible_to_customer as passed.
Activity(b, type, title, by) ==
    [booking |-> b, activity_type |-> type, title |-> title, status_arg |-> "",
     amount |-> NoPrice, description |-> "", performed_by |-> by,
     is_visible_to_customer |-> TRUE]

\* BookingActivity.objects.create(...)
CreateActivity(db, act) ==
    [db EXCEPT !.activities = Append(@, act)]

\* CarBooking.save(): clean() is a no-op, then every field of the in-memory
\* object is written and auto_now stamps updated_at.
SaveBooking(db, b, obj) ==
    [db EXCEPT !.now = @ + 1,
               !.bookings[b] = [obj EXCEPT !.updated_at = db.now + 1]]

\* faulty variant: the two watermarks are swapped
SaveMessageSwapped(db, b, obj, from_admin, body, offer) ==
    LET t == db.now + 1
        row == [booking |-> b, message |-> body, is_from_admin |-> from_admin,
                price_offer |-> offer, created_at |-> t,
                is_read |-> FALSE, read_at |-> None]
        lar == IF from_admin THEN obj.last_admin_response ELSE t
        lcm == IF from_admin THEN t ELSE obj.last_customer_message
    IN [db EXCEPT !.now = t + 1,
                  !.messages = Append(@, row),
                  !.bookings[b].last_admin_response = lar,
                  !.bookings[b].last_customer_message = lcm,
                  !.bookings[b].updated_at = t + 1]

\* faulty variant: update_fields leaves out updated_at
SaveMessageUnstamped(db, b, obj, from_admin, body, offer) ==
    LET t == db.now + 1
        row == [booking |-> b, message |-> body, is_from_admin |-> from_admin,
                price_offer |-> offer, created_at |-> t,
                is_read |-> FALSE, read_at |-> None]
        lar == IF from_admin THEN t ELSE obj.last_admin_response
        lcm == IF from_admin THEN obj.last_customer_message ELSE t
    IN [db EXCEPT !.now = t + 1,
                  !.messages = Append(@, row),
                  !.bookings[b].last_admin_response = lar,
                  !.bookings[b].last_customer_message = lcm]

\* BookingMessage.save() as reached from objects.create(booking=obj, ...):
\* insert the row (auto_now_add created_at), set the watermark of its
\* direction on the in-memory booking obj, then
\* obj.save(update_fields=[last_admin_response, last_customer_message, updated_at]).
SaveMessage(db, b, obj, from_admin, body, offer) ==
    LET t == db.now + 1
        row == [booking |-> b, message |-> body, is_from_admin |-> from_admin,
                price_offer |-> offer, created_at |-> t,
                is_read |-> FALSE, read_at |-> None]
        lar == IF from_admin THEN t ELSE obj.last_admin_response
        lcm == IF from_admin THEN obj.last_customer_message ELSE t
    IN [db EXCEPT !.now = t + 1,
                  !.messages = Append(@, row),
                  !.bookings[b].last_admin_response = lar,
                  !.bookings[b].last_customer_message = lcm,
                  !.bookings[b].updated_at = t + 1]

\* BookingMessage.save() up to and including super().save(): the row is
\* inserted; the hook's save of the booking has not happened yet.
InsertMessage(db, b, from_admin, body, offer) ==
    [db EXCEPT !.now = @ + 1,
               !.messages = Append(@,
                   [booking |-> b, message |-> body, is_from_admin |-> from_admin,
                    price_offer |-> offer, created_at |-> db.now + 1,
                    is_read |-> FALSE, read_at |-> None])]

\* BookingMessage.save() of a row that exists already: the row keeps its
\* created_at (auto_now_add), and the hook runs all the same: it loads the
\* booking, sets the watermark of the row's direction to the row's created_at
\* and saves the booking's two watermarks and updated_at.
ResaveMessage(db, i) ==
    LET row == db.messages[i]
        b == row.booking
    IN [db EXCEPT !.now = @ + 1,
                  !.bookings[b].last_admin_response =
                      IF row.is_from_admin THEN row.created_at ELSE @,
                  !.bookings[b].last_customer_message =
                      IF row.is_from_admin THEN @ ELSE row.created_at,
                  !.bookings[b].updated_at = db.now + 1]

\* get_status_display(): the label of BOOKING_STATUS_CHOICES
get_status_display(status) ==
    CASE status = "interest_shown" -> "Interest Shown"
      [] status = "inspection_scheduled" -> "Inspection Scheduled"
      [] status = "payment_scheduled" -> "Payment Scheduled"
      [] status = "payment_confirmed" -> "Payment Confirmed"
      [] status = "completed" -> "Completed"
      [] status = "cancelled" -> "Cancelled"
      [] OTHER -> status

\* get_payment_method_display(): the label of the payment_method choices,
\* or the raw value when it is not one of them.
get_payment_method_display(m) ==
    CASE m = "bank_transfer" -> "Bank Transfer"
      [] m = "cash" -> "Cash Payment"
      [] m = "bank_draft" -> "Bank Draft"
      [] m = "pos" -> "POS Payment"
      [] OTHER -> m

\* The response of a request: which handler, on which booking(s), what came
\* back, and, for a submission that was carried out, the values submitted.
NoInput == [method |-> "", date |-> None, time |-> 0, loc |-> "",
            paymethod |-> "", text |-> "", offer |-> NoPrice]

\* the JSON body of the update poller, when it answers success
NoPoll == [last_check |-> [fmt |-> "", t |-> None],
           status |-> "", status_display |-> "", progress |-> 0,
           new_messages |-> 0, unread_count |-> 0, updated_at |-> None]

\* no request is between its load and its writes
NoFlight == [op |-> "", b |-> 0, obj |-> None, input |-> NoInput]

\* car_id / name / phone as a creation request carried them
NoRequest == [car_id |-> None, name |-> "", phone |-> ""]

Ret(op, b, out) ==
    [op |-> op, b |-> b, qs |-> {}, out |-> out, n |-> 0, input |-> NoInput,
     rq |-> NoRequest, poll |-> NoPoll, changed |-> FALSE]

\* The request ends without having written anything: r is returned.
Reply(r) ==
    /\ Serving
    /\ ret' = r
    /\ UNCHANGED <<now, car_sold, sold_cars, inquiries, bookings, messages,
                   activities, served, slots, inflight>>


\* -------------------------------------------------------- request inputs
\* car_id / name / phone of the POST to booking/create/
CreateRequests ==
    { [car_id |-> 1, name |-> "Ada", phone |-> "+2348012345678"],
      [car_id |-> 1, name |-> "", phone |-> "+2348012345678"],
      [car_id |-> 1, name |-> "Ada", phone |-> ""],
      [car_id |-> None, name |-> "Ada", phone |-> "+2348012345678"],
      [car_id |-> UnknownCar, name |-> "Ada", phone |-> "+2348012345678"] }

\* inspection_date / inspection_time / inspection_location of the POST
InspectionInputs ==
    { [date |-> None, time |-> 0, loc |-> ""],   \* a GET: nothing submitted
      [date |-> 1, time |-> 0, loc |-> "Lagos"],
      [date |-> 2, time |-> 13, loc |-> "Ikeja"],
      [date |-> BadDate, time |-> 10, loc |-> "Lagos"],
      [date |-> 1, time |-> 10, loc |-> Missing] }

\* payment_date / payment_method of the POST
PaymentInputs ==
    { [date |-> None, method |-> ""],            \* a GET: nothing submitted
      [date |-> 3, method |-> "cash"],
      [date |-> 4, method |-> "bank_transfer"],
      [date |-> BadDate, method |-> "cash"],
      [date |-> 3, method |-> Missing] }

\* requests to the booking page: a GET, or a POST of message / price_offer
DetailRequests ==
    { [method |-> "GET", text |-> "", offer |-> NoPrice],
      [method |-> "POST", text |-> "  ", offer |-> 7],
      [method |-> "POST", text |-> "hi", offer |-> NoPrice],
      [method |-> "POST", text |-> " hi ", offer |-> 7],
      [method |-> "POST", text |-> "hi", offer |-> BadNumber] }

\* last_check of the GET to the update poller: absent, an ISO timestamp, a
\* string that is not a timestamp at all ("soon"), or a well-formed string
\* that names no real moment ("2025-02-30T10:00:00")
MissingCheck == [fmt |-> "missing", t |-> None]
PollInputs(db, b) ==
    { MissingCheck, [fmt |-> "garbage", t |-> None], [fmt |-> "invalid", t |-> None] }
    \cup (IF b \in 1..Len(db.bookings)
          THEN { [fmt |-> "iso", t |-> db.bookings[b].created_at],
                 [fmt |-> "iso", t |-> db.bookings[b].last_admin_response],
                 [fmt |-> "iso", t |-> db.bookings[b].updated_at] }
          ELSE { [fmt |-> "iso", t |-> 1] })

\* django.utils.dateparse.parse_datetime: the datetime of an ISO string, None
\* for a string that is not well formatted; for a well-formatted string that
\* is not a valid datetime it raises ValueError.
parse_datetime_raises(last_check) == last_check.fmt = "invalid"
parse_datetime(last_check) ==
    IF last_check.fmt = "iso" THEN last_check.t ELSE None

\* str.strip()
Strip(t) == CASE t = "  " -> "" [] t = " hi " -> "hi" [] OTHER -> t

\* datetime.strptime(f"{date} {time}", '%Y-%m-%d %H:%M'): hours since the epoch
Strptime(date, time) == date * 24 + time
\* strftime("%B %d, %Y")
StrfDate(dt) == dt \div 24
\* faulty variant: %H instead of %I
StrfHour24(dt) == dt % 24

\* strftime("%I:%M %p"): 12-hour clock and AM/PM
StrfHour12(dt) == IF (dt % 24) % 12 = 0 THEN 12 ELSE (dt % 24) % 12
StrfPM(dt) == (dt % 24) >= 12

\* ------------------------------------------------------------------ Init
Empty ==
    /\ now = 0
    /\ car_sold = [c \in CarIds |-> FALSE]
    /\ sold_cars = <<>>
    /\ inquiries = <<>>
    /\ bookings = <<>>
    /\ messages = <<>>
    /\ activities = <<>>
    /\ served = 0
    /\ ret = [Ret("init", 0, "ok") EXCEPT !.changed = TRUE]
    /\ inflight = NoFlight

\* One customer's booking.
Init == Empty /\ slots = {1}

\* Two bookings side by side.
InitPair == Empty /\ slots = BookingSlots

\* ------------------------------------------------------- views.py requests

\* faulty variant: the flag is set on the object and the object is not saved
ConvertInquiryUnsaved(db, q) == db

\* inquiry.converted_to_booking = True; inquiry.save()
ConvertInquiry(db, q) ==
    [db EXCEPT !.inquiries[q].converted_to_booking = TRUE]

\* the rows create_booking_from_inquiry writes, as the stored state after
\* each of its writes in turn
CreateWrites(db0, car_id, name, phone) ==
    LET q == Len(db0.inquiries) + 1
        b == Len(db0.bookings) + 1
        inquiry == [car |-> car_id, name |-> name, phone |-> phone,
                    converted_to_booking |-> FALSE]
        db1 == [db0 EXCEPT !.inquiries = Append(@, inquiry)]
        obj == [car |-> car_id, inquiry |-> q,
                customer_name |-> name, customer_phone |-> phone,
                status |-> "interest_shown", is_active |-> TRUE,
                inspection_date |-> None, inspection_location |-> "",
                payment_scheduled_date |-> None, payment_method |-> "",
                payment_confirmed_date |-> None,
                negotiated_price |-> NoPrice,
                free_gift_claimed |-> FALSE, free_gift_claimed_date |-> None,
                created_at |-> db1.now + 1, updated_at |-> db1.now + 2,
                last_customer_message |-> None, last_admin_response |-> None]
        db2 == [db1 EXCEPT !.now = @ + 2, !.bookings = Append(@, obj)]
        db3 == ConvertInquiry(db2, q)
        db4 == CreateActivity(db3,
                  Activity(b, "status_change", "Booking Created", "Customer"))
        db5 == SaveMessage(db4, b, obj, TRUE, Body("welcome"), NoPrice)
    IN <<db1, db2, db3, db4,
         InsertMessage(db4, b, TRUE, Body("welcome"), NoPrice), db5>>

\* views.create_booking_from_inquiry
create_booking_from_inquiry(car_id, name, phone) ==
    LET Answer(b, out) ==
            [Ret("create_booking", b, out)
               EXCEPT !.rq = [car_id |-> car_id, name |-> name, phone |-> phone]]
    IN
    IF car_id = None \/ name = "" \/ phone = ""
    THEN Reply(Answer(0, "missing_fields"))
    ELSE IF car_id \notin CarIds
    THEN Reply(Answer(0, "car_not_found"))
    ELSE IF car_sold[car_id]
    THEN Reply(Answer(0, "car_sold"))
    ELSE
      LET b == Len(bookings) + 1
          w == CreateWrites(DB, car_id, name, phone)
      IN /\ b \in slots
         /\ Commit(w[Len(w)], Answer(b, "created"))


\* faulty variant: the filter leaves out is_read=False
MarkAllAdminMessagesRead(db, b) ==
    LET hit(m) == m.booking = b /\ m.is_from_admin
        any == \E i \in 1..Len(db.messages) : hit(db.messages[i])
        t == db.now + 1
    IN IF ~any THEN db
       ELSE [db EXCEPT !.now = t,
                       !.messages = [i \in 1..Len(db.messages) |->
                           IF hit(db.messages[i])
                           THEN [db.messages[i] EXCEPT !.is_read = TRUE, !.read_at = t]
                           ELSE db.messages[i]]]

\* booking.messages.filter(is_from_admin=True, is_read=False)
\*        .update(is_read=True, read_at=timezone.now())
MarkAdminMessagesRead(db, b) ==
    LET hit(m) == m.booking = b /\ m.is_from_admin /\ ~m.is_read
        any == \E i \in 1..Len(db.messages) : hit(db.messages[i])
        t == db.now + 1
    IN IF ~any THEN db
       ELSE [db EXCEPT !.now = t,
                       !.messages = [i \in 1..Len(db.messages) |->
                           IF hit(db.messages[i])
                           THEN [db.messages[i] EXCEPT !.is_read = TRUE, !.read_at = t]
                           ELSE db.messages[i]]]

\* faulty variant: the test for an empty text is missing
HasTextAlways(t) == TRUE

\* `if message_text:`
HasText(t) == t # ""

\* views.booking_detail, the POST branch: the message is created on the
\* booking object the view loaded, then the activity.
PostMessage(db, b, booking, message_text, offer) ==
    LET body == [Body("customer") EXCEPT !.text = message_text]
        db1 == SaveMessage(db, b, booking, FALSE, body, offer)
        act == IF offer # NoPrice
               THEN [Activity(b, "message", "Customer offered", "Customer")
                       EXCEPT !.amount = FormatNaira(offer),
                              !.description = message_text]
               ELSE [Activity(b, "message", "New message from customer", "Customer")
                       EXCEPT !.description = message_text]
    IN CreateActivity(db1, act)

\* views.booking_detail: a POST with a non-blank message appends it and
\* redirects; every other request renders the page, which marks the admin
\* messages read.
booking_detail(b, method, text, offer) ==
    LET message_text == Strip(text)
        input == [NoInput EXCEPT !.method = method, !.text = message_text,
                                 !.offer = offer]
    IN
    IF b \notin BookingIds \/ ~bookings[b].is_active
    THEN Reply(Ret("booking_detail", b, "not_found"))
    ELSE IF method = "POST" /\ HasText(message_text)
    THEN IF offer = BadNumber
         THEN \* float(price_offer) raises before any row is written
              Reply(Ret("booking_detail", b, "error"))
         ELSE
           Commit(PostMessage(DB, b, bookings[b], message_text, offer),
                  [Ret("booking_detail", b, "posted") EXCEPT !.input = input])
    ELSE Commit(MarkAdminMessagesRead(DB, b),
                [Ret("booking_detail", b, "rendered") EXCEPT !.input = input])

\* faulty variant: messages created at last_check itself are counted too
NewMessagesFrom(db, b, since) ==
    Cardinality({i \in 1..Len(db.messages) :
                   db.messages[i].booking = b /\ db.messages[i].created_at >= since})

\* booking.messages.filter(created_at__gt=last_check_dt).count()
NewMessagesSince(db, b, since) ==
    Cardinality({i \in 1..Len(db.messages) :
                   db.messages[i].booking = b /\ db.messages[i].created_at > since})

\* faulty variant: the customer's own messages are counted
PollUnreadOfCustomer(db, b) ==
    Cardinality({i \in 1..Len(db.messages) :
                   /\ db.messages[i].booking = b
                   /\ ~db.messages[i].is_from_admin
                   /\ ~db.messages[i].is_read})

\* booking.messages.filter(is_from_admin=True, is_read=False).count()
PollUnreadCount(db, b) ==
    Cardinality({i \in 1..Len(db.messages) :
                   /\ db.messages[i].booking = b
                   /\ db.messages[i].is_from_admin
                   /\ ~db.messages[i].is_read})

\* the JsonResponse of the poller for last_check_dt = since
PollResult(db, b, last_check, since) ==
    [last_check |-> last_check,
     status |-> db.bookings[b].status,
     status_display |-> get_status_display(db.bookings[b].status),
     progress |-> progress_percentage(db.bookings[b]),
     new_messages |-> NewMessagesSince(db, b, since),
     unread_count |-> PollUnreadCount(db, b),
     updated_at |-> db.bookings[b].updated_at]

\* faulty variant: the lookup leaves out is_active=True
GetBookingById(db, b) == b \in 1..Len(db.bookings)

\* CarBooking.objects.get(id=booking_id, is_active=True) finds a row
GetActiveBooking(db, b) ==
    b \in 1..Len(db.bookings) /\ db.bookings[b].is_active

\* views.booking_updates_api
booking_updates_api(b, last_check) ==
    IF ~GetActiveBooking(DB, b)
    THEN Reply(Ret("booking_updates_api", b, "not_found"))
    ELSE IF last_check.fmt # "missing" /\ parse_datetime_raises(last_check)
    THEN \* ValueError is not CarBooking.DoesNotExist: the request fails
         Reply([Ret("booking_updates_api", b, "error")
                  EXCEPT !.poll.last_check = last_check])
    ELSE
      LET parsed == IF last_check.fmt # "missing"
                    THEN parse_datetime(last_check)
                    ELSE None
          last_check_dt == IF parsed = None THEN bookings[b].updated_at
                           ELSE parsed
      IN Reply([Ret("booking_updates_api", b, "ok")
                  EXCEPT !.poll = PollResult(DB, b, last_check, last_check_dt)])

\* the rows schedule_inspection writes for a well-formed submission, as the
\* stored state after each of its writes in turn
InspectionWritesFrom(db, b, booking, in) ==
    LET dt_obj == Strptime(in.date, in.time)
        obj == [booking EXCEPT !.inspection_date = dt_obj,
                                      !.inspection_location = in.loc,
                                      !.status = "inspection_scheduled"]
        db1 == SaveBooking(db, b, obj)
        db2 == CreateActivity(db1,
                 Activity(b, "inspection", "Inspection Scheduled", "Customer"))
        body == [Body("inspection_confirmed") EXCEPT
                   !.date = StrfDate(dt_obj), !.h12 = StrfHour12(dt_obj),
                   !.pm = StrfPM(dt_obj), !.loc = in.loc]
        db3 == SaveMessage(db2, b, db1.bookings[b], TRUE, body, NoPrice)
    IN <<db1, db2, InsertMessage(db2, b, TRUE, body, NoPrice), db3>>

\* the same, the booking having been loaded just before
InspectionWrites(db, b, in) == InspectionWritesFrom(db, b, db.bookings[b], in)

\* views.schedule_inspection
schedule_inspection(b, method, in) ==
    IF b \notin BookingIds \/ ~bookings[b].is_active
    THEN Reply(Ret("schedule_inspection", b, "not_found"))
    ELSE IF bookings[b].status # "interest_shown"
    THEN Reply(Ret("schedule_inspection", b, "invalid_state"))
    ELSE IF method # "POST"
    THEN Reply(Ret("schedule_inspection", b, "form"))
    ELSE
      LET input == [NoInput EXCEPT !.method = method, !.date = in.date,
                                   !.time = in.time, !.loc = in.loc]
      IN IF in.date = BadDate \/ in.loc = Missing
         THEN \* strptime raises ValueError / the NOT NULL column rejects the
              \* save: the request fails before the first write
              Reply(Ret("schedule_inspection", b, "error"))
         ELSE
           LET w == InspectionWrites(DB, b, in)
           IN Commit(w[Len(w)],
                     [Ret("schedule_inspection", b, "scheduled") EXCEPT !.input = input])

\* the rows schedule_payment writes for a well-formed submission, as the
\* stored state after each of its writes in turn
PaymentWrites(db, b, in) ==
    LET obj == [db.bookings[b] EXCEPT !.payment_scheduled_date = in.date,
                                      !.payment_method = in.method,
                                      !.status = "payment_scheduled"]
        db1 == SaveBooking(db, b, obj)
        db2 == CreateActivity(db1,
                 Activity(b, "payment", "Payment Date Scheduled", "Customer"))
        saved == db1.bookings[b]
        body == [Body("payment_details") EXCEPT
                   !.date = in.date,
                   !.price = formatted_final_price(saved),
                   !.method = get_payment_method_display(saved.payment_method)]
        db3 == SaveMessage(db2, b, saved, TRUE, body, NoPrice)
    IN <<db1, db2, InsertMessage(db2, b, TRUE, body, NoPrice), db3>>

\* views.schedule_payment
schedule_payment(b, method, in) ==
    IF b \notin BookingIds \/ ~bookings[b].is_active
    THEN Reply(Ret("schedule_payment", b, "not_found"))
    ELSE IF bookings[b].status # "inspection_scheduled"
    THEN Reply(Ret("schedule_payment", b, "invalid_state"))
    ELSE IF method # "POST"
    THEN Reply(Ret("schedule_payment", b, "form"))
    ELSE
      LET input == [NoInput EXCEPT !.method = method, !.date = in.date,
                                   !.paymethod = in.method]
      IN IF in.date = BadDate \/ in.method = Missing
         THEN \* DateField cannot convert the value / the NOT NULL column
              \* rejects the save: the request fails before the first write
              Reply(Ret("schedule_payment", b, "error"))
         ELSE
           LET w == PaymentWrites(DB, b, in)
           IN Commit(w[Len(w)],
                     [Ret("schedule_payment", b, "scheduled") EXCEPT !.input = input])


\* ------------------------------------------------- CarBooking model method

\* faulty variant: the dict sends interest_shown two stages ahead
transitionsSkipping ==
    [s \in {"interest_shown", "inspection_scheduled", "payment_scheduled",
            "payment_confirmed"} |->
        CASE s = "interest_shown" -> "payment_scheduled"
          [] s = "inspection_scheduled" -> "payment_scheduled"
          [] s = "payment_scheduled" -> "payment_confirmed"
          [] s = "payment_confirmed" -> "completed"]

\* the transitions dict of CarBooking.advance_to_next_stage
transitions ==
    [s \in {"interest_shown", "inspection_scheduled", "payment_scheduled",
            "payment_confirmed"} |->
        CASE s = "interest_shown" -> "inspection_scheduled"
          [] s = "inspection_scheduled" -> "payment_scheduled"
          [] s = "payment_scheduled" -> "payment_confirmed"
          [] s = "payment_confirmed" -> "completed"]

\* faulty variant: the flag is set and the claim date is not
ClaimFreeGiftUndated(obj, clock) ==
    [obj |-> [obj EXCEPT !.free_gift_claimed = TRUE], now |-> clock]

\* if not free_gift_claimed: free_gift_claimed = True; ..._date = timezone.now()
\* Returns the booking and the clock after the optional timestamp read.
ClaimFreeGift(obj, clock) ==
    IF ~obj.free_gift_claimed
    THEN [obj |-> [obj EXCEPT !.free_gift_claimed = TRUE,
                              !.free_gift_claimed_date = clock + 1],
          now |-> clock + 1]
    ELSE [obj |-> obj, now |-> clock]

\* the rows advance_to_next_stage writes when the status has a successor, as
\* the stored state after each of its writes in turn
AdvanceWrites(db, b) ==
    LET moved == [db.bookings[b] EXCEPT !.status = transitions[@]]
        g == IF moved.status = "completed"
             THEN ClaimFreeGift(moved, db.now)
             ELSE [obj |-> moved, now |-> db.now]
        db1 == SaveBooking([db EXCEPT !.now = g.now], b, g.obj)
        db2 == CreateActivity(db1,
                  [Activity(b, "status_change", "Status updated to", "Admin")
                     EXCEPT !.status_arg = get_status_display(g.obj.status)])
    IN <<db1, db2>>

\* CarBooking.advance_to_next_stage, called on a freshly loaded booking
advance_to_next_stage(b) ==
    /\ b \in BookingIds
    /\ IF bookings[b].status \in DOMAIN transitions
       THEN LET w == AdvanceWrites(DB, b)
            IN Commit(w[Len(w)], Ret("advance_to_next_stage", b, "True"))
       ELSE Reply(Ret("advance_to_next_stage", b, "False"))

\* ------------------------------------------------- admin.py bulk actions

\* A queryset is iterated in the model's default order, newest booking first.
Newest(qs) == CHOOSE b \in qs : \A c \in qs : c <= b

\* faulty variant: the status filter is dropped, the action runs on the whole selection
SelectedUnfiltered(db, qs, status) == qs

\* queryset.filter(status=...)
Selected(db, qs, status) == {b \in qs : db.bookings[b].status = status}

\* loop body of CarBookingAdmin.advance_to_inspection
AdvanceToInspectionOne(db, b) ==
    LET obj == [db.bookings[b] EXCEPT !.status = "inspection_scheduled"]
        db1 == SaveBooking(db, b, obj)
    IN CreateActivity(db1,
          [Activity(b, "status_change", "Status updated by Admin", "Admin")
             EXCEPT !.description = "Moved to inspection stage"])

\* faulty variant: the confirmation time is written to the gift's date field
ConfirmPaymentWrongField(db, b) ==
    LET obj == [db.bookings[b] EXCEPT !.status = "payment_confirmed",
                                      !.free_gift_claimed_date = db.now + 1]
        db1 == SaveBooking([db EXCEPT !.now = @ + 1], b, obj)
        db2 == SaveMessage(db1, b, db1.bookings[b], TRUE,
                           Body("payment_confirmed"), NoPrice)
    IN CreateActivity(db2,
          [Activity(b, "payment", "Payment Confirmed", "Admin")
             EXCEPT !.description = "Admin confirmed payment received"])

\* faulty variant: the payment_confirmed_date assignment is left out
ConfirmPaymentUndated(db, b) ==
    LET obj == [db.bookings[b] EXCEPT !.status = "payment_confirmed"]
        db1 == SaveBooking(db, b, obj)
        db2 == SaveMessage(db1, b, db1.bookings[b], TRUE,
                           Body("payment_confirmed"), NoPrice)
    IN CreateActivity(db2,
          [Activity(b, "payment", "Payment Confirmed", "Admin")
             EXCEPT !.description = "Admin confirmed payment received"])

\* the rows one turn of the confirm_payment loop writes, as the stored state
\* after each of its writes in turn
ConfirmPaymentWrites(db, b) ==
    LET obj == [db.bookings[b] EXCEPT !.status = "payment_confirmed",
                                      !.payment_confirmed_date = db.now + 1]
        db1 == SaveBooking([db EXCEPT !.now = @ + 1], b, obj)
        db2 == SaveMessage(db1, b, db1.bookings[b], TRUE,
                           Body("payment_confirmed"), NoPrice)
        db3 == CreateActivity(db2,
                  [Activity(b, "payment", "Payment Confirmed", "Admin")
                     EXCEPT !.description = "Admin confirmed payment received"])
    IN <<db1, InsertMessage(db1, b, TRUE, Body("payment_confirmed"), NoPrice),
         db2, db3>>

\* loop body of CarBookingAdmin.confirm_payment
ConfirmPaymentOne(db, b) ==
    LET w == ConfirmPaymentWrites(db, b) IN w[Len(w)]

\* the rows one turn of the mark_completed loop writes, as the stored state
\* after each of its writes in turn
MarkCompletedWrites(db, b) ==
    LET moved == [db.bookings[b] EXCEPT !.status = "completed"]
        g == ClaimFreeGift(moved, db.now)
        db1 == SaveBooking([db EXCEPT !.now = g.now], b, g.obj)
        db2 == CreateActivity(db1,
                  [Activity(b, "status_change", "Purchase Completed", "Admin")
                     EXCEPT !.description = "Booking completed successfully"])
    IN <<db1, db2>>

\* loop body of CarBookingAdmin.mark_completed
MarkCompletedOne(db, b) ==
    LET w == MarkCompletedWrites(db, b) IN w[Len(w)]

RECURSIVE AdvanceLoop(_, _)
AdvanceLoop(db, todo) ==
    IF todo = {} THEN db
    ELSE AdvanceLoop(AdvanceToInspectionOne(db, Newest(todo)), todo \ {Newest(todo)})

RECURSIVE ConfirmLoop(_, _)
ConfirmLoop(db, todo) ==
    IF todo = {} THEN db
    ELSE ConfirmLoop(ConfirmPaymentOne(db, Newest(todo)), todo \ {Newest(todo)})

RECURSIVE CompleteLoop(_, _)
CompleteLoop(db, todo) ==
    IF todo = {} THEN db
    ELSE CompleteLoop(MarkCompletedOne(db, Newest(todo)), todo \ {Newest(todo)})

BulkRet(op, qs, updated) ==
    [Ret(op, 0, "done") EXCEPT !.qs = qs, !.n = updated]

\* CarBookingAdmin.advance_to_inspection
advance_to_inspection(qs) ==
    LET todo == Selected(DB, qs, "interest_shown")
    IN Commit(AdvanceLoop(DB, todo),
              BulkRet("advance_to_inspection", qs, Cardinality(todo)))

\* CarBookingAdmin.confirm_payment
confirm_payment(qs) ==
    LET todo == Selected(DB, qs, "payment_scheduled")
    IN Commit(ConfirmLoop(DB, todo),
              BulkRet("confirm_payment", qs, Cardinality(todo)))

\* CarBookingAdmin.mark_completed
mark_completed(qs) ==
    LET todo == Selected(DB, qs, "payment_confirmed")
    IN Commit(CompleteLoop(DB, todo),
              BulkRet("mark_completed", qs, Cardinality(todo)))

\* faulty variant: the bulk update sets the status and forgets is_active
CancelUpdateStatusOnly(bk) == [bk EXCEPT !.status = "cancelled"]

\* .update(status='cancelled', is_active=False)
CancelUpdate(bk) == [bk EXCEPT !.status = "cancelled", !.is_active = FALSE]

\* queryset.exclude(status__in=['completed', 'cancelled'])
CancelSelects(bk) == bk.status \notin {"completed", "cancelled"}

\* CarBookingAdmin.cancel_bookings: one UPDATE statement, no save(), so
\* updated_at is not stamped
cancel_bookings(qs) ==
    LET todo == {b \in qs : CancelSelects(bookings[b])}
        upd == [b \in BookingIds |->
                  IF b \in todo
                  THEN CancelUpdate(bookings[b])
                  ELSE bookings[b]]
    IN Commit([DB EXCEPT !.bookings = upd],
              BulkRet("cancel_bookings", qs, Cardinality(todo)))

\* CarBookingAdmin change form, 'Payment Details' fieldset: the admin enters
\* the negotiated price of a booking that has none yet and saves the booking.
NegotiatedPrices == {0, 7}

admin_change_negotiated_price(b, price) ==
    /\ b \in BookingIds
    /\ bookings[b].negotiated_price = NoPrice
    /\ Commit(SaveBooking(DB, b, [bookings[b] EXCEPT !.negotiated_price = price]),
           Ret("admin_change", b, "saved"))

\* BookingMessageInline: the admin writes a message on the booking's admin page.
admin_message(b) ==
    /\ b \in BookingIds
    /\ Commit(SaveMessage(DB, b, bookings[b], TRUE,
                          [Body("admin") EXCEPT !.text = "reply"], NoPrice),
           Ret("admin_message", b, "saved"))

\* BookingMessageAdmin change form: the admin opens message i and saves it
\* with its fields as they are.
admin_save_message(i) ==
    /\ i \in 1..Len(messages)
    /\ Commit(ResaveMessage(DB, i),
              Ret("admin_save_message", messages[i].booking, "saved"))

\* the price a sale is recorded at
SalePrice == 18

\* faulty variant: the record is stored and the car is left as it is
SaveSoldCarOnly(db, c, price) ==
    [db EXCEPT !.sold_cars =
        Append(@, [car |-> c, final_price |-> price,
                   profit_margin |-> price - CarPrice[c]])]

\* SoldCar.save(): profit_margin from the listing price, the car is marked
\* sold and saved, then the record is stored.
SaveSoldCar(db, c, price) ==
    [db EXCEPT !.car_sold[c] = TRUE,
               !.sold_cars =
                   Append(@, [car |-> c, final_price |-> price,
                              profit_margin |-> IF CarPrice[c] # 0
                                                THEN price - CarPrice[c]
                                                ELSE NoPrice])]

\* the admin records the sale of car c (SoldCar.car is one-to-one: a car has
\* at most one record)
save_sold_car(c) ==
    /\ \A i \in 1..Len(sold_cars) : sold_cars[i].car # c
    /\ Commit(SaveSoldCar(DB, c, SalePrice), Ret("save_sold_car", 0, "saved"))

\* CarAdmin.mark_as_sold / mark_as_available
mark_as_sold(c) ==
    Commit([DB EXCEPT !.car_sold[c] = TRUE], Ret("mark_as_sold", 0, "done"))

mark_as_available(c) ==
    Commit([DB EXCEPT !.car_sold[c] = FALSE], Ret("mark_as_available", 0, "done"))

\* -------------------------------------------------------------- the system
GetRequest(in) == in.date = None

Next ==
    \/ \E rq \in CreateRequests :
           create_booking_from_inquiry(rq.car_id, rq.name, rq.phone)
    \/ \E b \in slots, rq \in DetailRequests :
           booking_detail(b, rq.method, rq.text, rq.offer)
    \/ \E b \in slots, in \in InspectionInputs :
           schedule_inspection(b, IF GetRequest(in) THEN "GET" ELSE "POST", in)
    \/ \E b \in slots, in \in PaymentInputs :
           schedule_payment(b, IF GetRequest(in) THEN "GET" ELSE "POST", in)
    \/ \E b \in BookingIds : advance_to_next_stage(b)
    \/ \E qs \in SUBSET BookingIds \ {{}} : advance_to_inspection(qs)
    \/ \E qs \in SUBSET BookingIds \ {{}} : confirm_payment(qs)
    \/ \E qs \in SUBSET BookingIds \ {{}} : mark_completed(qs)
    \/ \E qs \in SUBSET BookingIds \ {{}} : cancel_bookings(qs)
    \/ \E b \in BookingIds, p \in NegotiatedPrices : admin_change_negotiated_price(b, p)
    \/ \E b \in BookingIds : admin_message(b)
    \/ \E i \in 1..Len(messages) : admin_save_message(i)
    \/ \E c \in CarIds : save_sold_car(c)
    \/ \E c \in CarIds : mark_as_sold(c)
    \/ \E c \in CarIds : mark_as_available(c)

Spec == Init /\ [][Next]_vars

\* The same requests and the customer page's update poller.
NextPoll ==
    \/ Next
    \/ \E b \in slots : \E last_check \in PollInputs(DB, b) :
           booking_updates_api(b, last_check)

SpecPoll == Init /\ [][NextPoll]_vars

\* ------------------------------------------------- the message admin pages
\* BookingMessageAdmin change form: `message` is an editable field of the
\* form; the admin rewrites the text of message i and saves, which runs
\* BookingMessage.save() and its hook on the row.
EditMessage(db, i) ==
    ResaveMessage([db EXCEPT !.messages[i].message.text = "edited"], i)

admin_edit_message(i) ==
    /\ i \in 1..Len(messages)
    /\ Commit(EditMessage(DB, i),
              Ret("admin_edit_message", messages[i].booking, "saved"))

\* BookingMessageAdmin keeps ModelAdmin's delete permission and its
\* delete_selected action: the row is removed, no hook runs.
DeleteMessage(db, i) ==
    [db EXCEPT !.messages = SubSeq(@, 1, i - 1) \o SubSeq(@, i + 1, Len(@))]

admin_delete_message(i) ==
    /\ i \in 1..Len(messages)
    /\ Commit(DeleteMessage(DB, i),
              Ret("admin_delete_message", messages[i].booking, "deleted"))

\* The same requests and the admin's message change and delete pages.
NextEdit ==
    \/ Next
    \/ \E i \in 1..Len(messages) : admin_edit_message(i)
    \/ \E i \in 1..Len(messages) : admin_delete_message(i)

SpecEdit == Init /\ [][NextEdit]_vars

\* ------------------------------------------------------ storage failures
\* No handler opens a transaction, so every write is committed as it is made
\* (Django's autocommit).  When the database fails at one write of a request,
\* the writes made before it stay and the request ends with a server error.

\* the stored state when the write after the first j writes of w fails
FailedAfter(db, w, j) == IF j = 0 THEN db ELSE w[j]

create_booking_fails(car_id, name, phone, j) ==
    LET w == CreateWrites(DB, car_id, name, phone)
    IN /\ car_id \in CarIds /\ ~car_sold[car_id] /\ name # "" /\ phone # ""
       /\ Len(bookings) + 1 \in slots
       /\ j \in 0..(Len(w) - 1)
       /\ Commit(FailedAfter(DB, w, j),
                 [Ret("create_booking", 0, "storage_error")
                    EXCEPT !.n = j,
                           !.rq = [car_id |-> car_id, name |-> name, phone |-> phone]])

schedule_inspection_fails(b, in, j) ==
    LET w == InspectionWrites(DB, b, in)
    IN /\ GetActiveBooking(DB, b)
       /\ bookings[b].status = "interest_shown"
       /\ ~GetRequest(in) /\ in.date # BadDate /\ in.loc # Missing
       /\ j \in 0..(Len(w) - 1)
       /\ Commit(FailedAfter(DB, w, j),
                 [Ret("schedule_inspection", b, "storage_error") EXCEPT !.n = j])

schedule_payment_fails(b, in, j) ==
    LET w == PaymentWrites(DB, b, in)
    IN /\ GetActiveBooking(DB, b)
       /\ bookings[b].status = "inspection_scheduled"
       /\ ~GetRequest(in) /\ in.date # BadDate /\ in.method # Missing
       /\ j \in 0..(Len(w) - 1)
       /\ Commit(FailedAfter(DB, w, j),
                 [Ret("schedule_payment", b, "storage_error") EXCEPT !.n = j])

advance_to_next_stage_fails(b, j) ==
    LET w == AdvanceWrites(DB, b)
    IN /\ b \in BookingIds
       /\ bookings[b].status \in DOMAIN transitions
       /\ j \in 0..(Len(w) - 1)
       /\ Commit(FailedAfter(DB, w, j),
                 [Ret("advance_to_next_stage", b, "storage_error") EXCEPT !.n = j])

\* the loop has dealt with the selected bookings before x (newer ones) and
\* fails in the turn of x
confirm_payment_fails(qs, x, j) ==
    LET todo == Selected(DB, qs, "payment_scheduled")
        before == ConfirmLoop(DB, {y \in todo : y > x})
        w == ConfirmPaymentWrites(before, x)
    IN /\ x \in todo
       /\ j \in 0..(Len(w) - 1)
       /\ Commit(FailedAfter(before, w, j),
                 [Ret("confirm_payment", x, "storage_error")
                    EXCEPT !.qs = qs, !.n = j])

mark_completed_fails(qs, x, j) ==
    LET todo == Selected(DB, qs, "payment_confirmed")
        before == CompleteLoop(DB, {y \in todo : y > x})
        w == MarkCompletedWrites(before, x)
    IN /\ x \in todo
       /\ j \in 0..(Len(w) - 1)
       /\ Commit(FailedAfter(before, w, j),
                 [Ret("mark_completed", x, "storage_error")
                    EXCEPT !.qs = qs, !.n = j])

\* how many writes of a request can have been made when the failure comes
FailurePoints == 0..5

NextFail ==
    \/ Next
    \/ \E rq \in CreateRequests, j \in FailurePoints :
           create_booking_fails(rq.car_id, rq.name, rq.phone, j)
    \/ \E b \in slots, in \in InspectionInputs, j \in FailurePoints :
           schedule_inspection_fails(b, in, j)
    \/ \E b \in slots, in \in PaymentInputs, j \in FailurePoints :
           schedule_payment_fails(b, in, j)
    \/ \E b \in BookingIds, j \in FailurePoints : advance_to_next_stage_fails(b, j)
    \/ \E qs \in SUBSET BookingIds \ {{}}, x \in BookingIds, j \in FailurePoints :
           confirm_payment_fails(qs, x, j)
    \/ \E qs \in SUBSET BookingIds \ {{}}, x \in BookingIds, j \in FailurePoints :
           mark_completed_fails(qs, x, j)

SpecFail == Init /\ [][NextFail]_vars

SpecPair == InitPair /\ [][Next]_vars

\* --------------------------------------------------- concurrent requests
\* The views run in the server's worker processes side by side, and no view
\* locks the booking row (no select_for_update, no transaction): between a
\* view's get_object_or_404 and its first write any other request can run
\* whole.  One customer request at a time is followed through that window.

\* what the first lines of the view did: the booking was loaded (active, or
\* the view would have answered 404) and the request's fields were read
Load(op, b, input) ==
    /\ Serving
    /\ served < MaxRequests
    /\ inflight.op = ""
    /\ b \in BookingIds
    /\ bookings[b].is_active
    /\ inflight' = [op |-> op, b |-> b, obj |-> bookings[b], input |-> input]
    /\ UNCHANGED <<now, car_sold, sold_cars, inquiries, bookings, messages,
                   activities, served, slots, ret>>

\* views.schedule_inspection up to the status check on the loaded object
schedule_inspection_load(b, in) ==
    /\ b \in BookingIds
    /\ bookings[b].status = "interest_shown"
    /\ in.date \notin {None, BadDate}
    /\ in.loc # Missing
    /\ Load("schedule_inspection", b,
            [NoInput EXCEPT !.method = "POST", !.date = in.date,
                            !.time = in.time, !.loc = in.loc])

\* views.schedule_inspection from `booking.save()` on: every field of the
\* loaded object is written back, then the activity and the message
schedule_inspection_finish ==
    /\ inflight.op = "schedule_inspection"
    /\ LET in == inflight.input
           w == InspectionWritesFrom(DB, inflight.b, inflight.obj,
                    [date |-> in.date, time |-> in.time, loc |-> in.loc])
       IN Store(w[Len(w)],
                [Ret("schedule_inspection", inflight.b, "scheduled") EXCEPT !.input = in])
    /\ inflight' = NoFlight

\* views.booking_detail up to BookingMessage.objects.create
booking_detail_load(b, text, offer) ==
    /\ HasText(Strip(text))
    /\ offer # BadNumber
    /\ Load("booking_detail", b,
            [NoInput EXCEPT !.method = "POST", !.text = Strip(text),
                            !.offer = offer])

\* views.booking_detail from BookingMessage.objects.create on: the hook of
\* BookingMessage.save writes the loaded object's two watermarks back
booking_detail_finish ==
    /\ inflight.op = "booking_detail"
    /\ Store(PostMessage(DB, inflight.b, inflight.obj, inflight.input.text,
                         inflight.input.offer),
             [Ret("booking_detail", inflight.b, "posted") EXCEPT !.input = inflight.input])
    /\ inflight' = NoFlight

\* the submissions followed through the window
RaceInspection == [date |-> 1, time |-> 0, loc |-> "Lagos"]
RacePost == [text |-> "hello", offer |-> NoPrice]

NextRace ==
    \/ Next
    \/ \E b \in slots : schedule_inspection_load(b, RaceInspection)
    \/ schedule_inspection_finish
    \/ \E b \in slots : booking_detail_load(b, RacePost.text, RacePost.offer)
    \/ booking_detail_finish

SpecRace == Init /\ [][NextRace]_vars


\* ================================================================ claims

\* rows of one booking, in order
Of(rows, b) == SelectSeq(rows, LAMBDA r : r.booking = b)

\* the stored rows are exactly as before the step
StoreUnchanged ==
    UNCHANGED <<now, car_sold, sold_cars, inquiries, bookings, messages, activities>>

\* the forward chain of section 4.1
ChainNext(s) ==
    CASE s = "interest_shown" -> "inspection_scheduled"
      [] s = "inspection_scheduled" -> "payment_scheduled"
      [] s = "payment_scheduled" -> "payment_confirmed"
      [] s = "payment_confirmed" -> "completed"
      [] OTHER -> "none"

Terminal(s) == s \in {"completed", "cancelled"}

\* C1: every change of a booking's status is one step forward along the chain
\* or a jump to cancelled, and a completed or cancelled booking keeps its
\* status for ever.
C1_StatusChain ==
    [][\A b \in BookingIds :
         LET s == bookings[b].status
             t == bookings'[b].status
         IN t # s => /\ ~Terminal(s)
                     /\ t = ChainNext(s) \/ t = "cancelled"]_vars

\* C1 witness: a booking has walked the whole chain and a further transition
\* was then attempted on it.
C1_Witness ==
    /\ BookingIds # {}
    /\ bookings[1].status = "completed"
    /\ ret.op \in {"cancel_bookings", "advance_to_next_stage"}
    /\ ~ret.changed

\* C2: a specific transition requested for a booking that is not in the
\* transition's source status writes nothing (status, stage fields, messages,
\* activities) and answers with invalid-state (customer pages; not-found once
\* the booking is inactive) or with "0 updated" (admin actions); scenario D is
\* confirm_payment at interest_shown.
SourceOf(op) ==
    CASE op = "schedule_inspection" -> "interest_shown"
      [] op = "schedule_payment" -> "inspection_scheduled"
      [] op = "confirm_payment" -> "payment_scheduled"
      [] op = "mark_completed" -> "payment_confirmed"
      [] OTHER -> "none"

HourOf(h12, pm) == (h12 % 12) + (IF pm THEN 12 ELSE 0)

\* C4: a well-formed schedule_inspection submission (POST with date, time and
\* location) on an active booking at interest_shown stores that date, time
\* and location, moves the booking to inspection_scheduled (progress 40) and
\* appends exactly one Activity of type inspection and exactly one admin
\* Message, which shows that date, time and location.
C4_ScheduleInspection ==
    [][\A b \in BookingIds :
         ( /\ ret'.op = "schedule_inspection"
           /\ ret'.b = b
           /\ bookings[b].is_active
           /\ bookings[b].status = "interest_shown"
           /\ ret'.out \notin {"form", "error"} )
         => LET in == ret'.input
                m == messages'[Len(messages')]
                a == activities'[Len(activities')]
            IN /\ ret'.out = "scheduled"
               /\ bookings'[b].inspection_date = in.date * 24 + in.time
               /\ bookings'[b].inspection_location = in.loc
               /\ bookings'[b].status = "inspection_scheduled"
               /\ progress_percentage(bookings'[b]) = 40
               /\ Len(activities') = Len(activities) + 1
               /\ SubSeq(activities', 1, Len(activities)) = activities
               /\ a.booking = b /\ a.activity_type = "inspection"
               /\ Len(messages') = Len(messages) + 1
               /\ SubSeq(messages', 1, Len(messages)) = messages
               /\ m.booking = b /\ m.is_from_admin
               /\ m.message.kind = "inspection_confirmed"
               /\ m.message.date = in.date
               /\ m.message.h12 \in 1..12
               /\ HourOf(m.message.h12, m.message.pm) = in.time
               /\ m.message.loc = in.loc]_vars

\* C4 witness: an afternoon inspection was scheduled.
C4_Witness ==
    /\ ret.op = "schedule_inspection"
    /\ ret.out = "scheduled"
    /\ ret.input.time = 13
    /\ bookings[ret.b].status = "inspection_scheduled"

\* C5: a well-formed schedule_payment submission on an active booking at
\* inspection_scheduled stores the payment date and method, moves the booking
\* to payment_scheduled and appends exactly one Activity of type payment and
\* exactly one admin Message, whose price is the booking's final_price as it
\* is at that moment.
C5_SchedulePayment ==
    [][\A b \in BookingIds :
         ( /\ ret'.op = "schedule_payment"
           /\ ret'.b = b
           /\ bookings[b].is_active
           /\ bookings[b].status = "inspection_scheduled"
           /\ ret'.out \notin {"form", "error"} )
         => LET in == ret'.input
                m == messages'[Len(messages')]
                a == activities'[Len(activities')]
            IN /\ ret'.out = "scheduled"
               /\ bookings'[b].payment_scheduled_date = in.date
               /\ bookings'[b].payment_method = in.paymethod
               /\ bookings'[b].status = "payment_scheduled"
               /\ Len(activities') = Len(activities) + 1
               /\ SubSeq(activities', 1, Len(activities)) = activities
               /\ a.booking = b /\ a.activity_type = "payment"
               /\ Len(messages') = Len(messages) + 1
               /\ SubSeq(messages', 1, Len(messages)) = messages
               /\ m.booking = b /\ m.is_from_admin
               /\ m.message.kind = "payment_details"
               /\ m.message.price = FormatNaira(final_price(bookings[b]))
               /\ final_price(bookings'[b]) = final_price(bookings[b])]_vars

\* C5 witness: payment was scheduled on a booking with a negotiated price.
C5_Witness ==
    /\ ret.op = "schedule_payment"
    /\ ret.out = "scheduled"
    /\ bookings[ret.b].negotiated_price = 7
    /\ messages[Len(messages)].message.price = 4

\* C6: confirm_payment sets payment_confirmed_date on every selected booking
\* at payment_scheduled, moves it to payment_confirmed and appends exactly one
\* admin Message and one Activity of type payment for it; a selected booking in
\* any other status is left as it was.
C6_ConfirmPayment ==
    [][ret'.op = "confirm_payment" =>
         \A b \in ret'.qs :
            IF bookings[b].status = "payment_scheduled"
            THEN LET ms == Of(messages', b)
                     as == Of(activities', b)
                 IN /\ bookings'[b].status = "payment_confirmed"
                    /\ bookings'[b].payment_confirmed_date > now
                    /\ Len(ms) = Len(Of(messages, b)) + 1
                    /\ SubSeq(ms, 1, Len(ms) - 1) = Of(messages, b)
                    /\ ms[Len(ms)].is_from_admin
                    /\ ms[Len(ms)].message.kind = "payment_confirmed"
                    /\ Len(as) = Len(Of(activities, b)) + 1
                    /\ SubSeq(as, 1, Len(as) - 1) = Of(activities, b)
                    /\ as[Len(as)].activity_type = "payment"
            ELSE /\ bookings'[b] = bookings[b]
                 /\ Of(messages', b) = Of(messages, b)
                 /\ Of(activities', b) = Of(activities, b)]_vars

\* C6 witness: confirm_payment ran on two selected bookings and confirmed the
\* one that was at payment_scheduled.
C6_Witness ==
    /\ ret.op = "confirm_payment"
    /\ ret.qs = {1, 2}
    /\ ret.n = 1
    /\ \E b \in BookingIds : bookings[b].status = "payment_confirmed"


\* C7: mark_completed moves every selected booking at payment_confirmed to
\* completed, claims the free gift with a claim timestamp when it was not yet
\* claimed and leaves an existing claim as it is, and appends a completion
\* Activity; it appends no Message.
C7_MarkCompleted ==
    [][ret'.op = "mark_completed" =>
         /\ messages' = messages
         /\ \A b \in ret'.qs :
              bookings[b].status = "payment_confirmed"
              => LET as == Of(activities', b)
                 IN /\ bookings'[b].status = "completed"
                    /\ bookings'[b].free_gift_claimed
                    /\ IF bookings[b].free_gift_claimed
                       THEN bookings'[b].free_gift_claimed_date
                              = bookings[b].free_gift_claimed_date
                       ELSE bookings'[b].free_gift_claimed_date > now
                    /\ Len(as) = Len(Of(activities, b)) + 1
                    /\ SubSeq(as, 1, Len(as) - 1) = Of(activities, b)
                    /\ as[Len(as)].activity_type = "status_change"
                    /\ as[Len(as)].title = "Purchase Completed"]_vars

\* C7 witness: mark_completed completed a booking and claimed its gift.
C7_Witness ==
    /\ ret.op = "mark_completed"
    /\ ret.n = 1
    /\ bookings[1].status = "completed"
    /\ bookings[1].free_gift_claimed
    /\ bookings[1].free_gift_claimed_date = bookings[1].updated_at - 1

\* C8: cancel sets status = cancelled and is_active = false on every selected
\* booking that is neither completed nor cancelled and changes no other field
\* of it; a selected completed or cancelled booking, and every row that is not
\* a booking (messages, activities), stays as it was.
C8_Cancel ==
    [][ret'.op = "cancel_bookings" =>
         /\ messages' = messages
         /\ activities' = activities
         /\ now' = now
         /\ \A b \in BookingIds :
              IF b \in ret'.qs /\ ~Terminal(bookings[b].status)
              THEN bookings'[b] = [bookings[b] EXCEPT !.status = "cancelled",
                                                      !.is_active = FALSE]
              ELSE bookings'[b] = bookings[b]]_vars

\* C8 witness: a booking with an inspection on record was cancelled.
C8_Witness ==
    /\ ret.op = "cancel_bookings"
    /\ ret.n = 1
    /\ bookings[1].status = "cancelled"
    /\ ~bookings[1].is_active
    /\ bookings[1].inspection_date # None

\* C9: advance_to_next_stage on a completed or cancelled booking returns False
\* and writes nothing; on any other booking it returns True and moves the
\* status exactly one step along the chain, and the step to completed leaves
\* an already recorded gift claim as it is.
C9_Advance ==
    [][\A b \in BookingIds :
         (ret'.op = "advance_to_next_stage" /\ ret'.b = b)
         => IF Terminal(bookings[b].status)
            THEN ret'.out = "False" /\ StoreUnchanged
            ELSE /\ ret'.out = "True"
                 /\ bookings'[b].status = ChainNext(bookings[b].status)
                 /\ bookings[b].free_gift_claimed
                      => /\ bookings'[b].free_gift_claimed
                         /\ bookings'[b].free_gift_claimed_date
                              = bookings[b].free_gift_claimed_date]_vars

\* C9 witness: advance_to_next_stage was refused on a cancelled booking.
C9_Witness ==
    /\ ret.op = "advance_to_next_stage"
    /\ ret.out = "False"
    /\ bookings[ret.b].status = "cancelled"

\* C10: a customer message with non-blank text (and a well-formed or absent
\* price offer) posted on an active booking appends exactly one customer
\* Message, raises unread_count_for_admin by exactly 1, sets
\* last_customer_message to that message's created_at and leaves
\* last_admin_response and the status as they were.
C10_CustomerPost ==
    [][\A b \in BookingIds :
         ( /\ ret'.op = "booking_detail"
           /\ ret'.b = b
           /\ bookings[b].is_active
           /\ ret'.out \notin {"rendered", "error"} )
         => LET m == messages'[Len(messages')]
            IN /\ ret'.out = "posted"
               /\ Len(messages') = Len(messages) + 1
               /\ SubSeq(messages', 1, Len(messages)) = messages
               /\ m.booking = b /\ ~m.is_from_admin
               /\ m.message.text = ret'.input.text /\ m.message.text # ""
               /\ unread_count_for_admin(DB', b) = unread_count_for_admin(DB, b) + 1
               /\ bookings'[b].last_customer_message = m.created_at
               /\ bookings'[b].last_admin_response = bookings[b].last_admin_response
               /\ bookings'[b].status = bookings[b].status]_vars

\* C10 witness: the customer posted a second message after the admin's last
\* response, on a booking that has moved on from interest_shown.
C10_Witness ==
    /\ ret.op = "booking_detail"
    /\ ret.out = "posted"
    /\ bookings[ret.b].status # "interest_shown"
    /\ bookings[ret.b].last_admin_response # None
    /\ unread_count_for_admin(DB, ret.b) = 2

\* created_at of the newest message of booking b in the given direction,
\* None when there is none
NewestCreatedAt(b, from_admin) ==
    LET mine == {i \in 1..Len(messages) : /\ messages[i].booking = b
                                          /\ messages[i].is_from_admin = from_admin}
    IN IF mine = {} THEN None
       ELSE messages[CHOOSE i \in mine : \A j \in mine : j <= i].created_at

\* C11: in every reachable state last_customer_message is the created_at of
\* the booking's most recent customer message and last_admin_response the
\* created_at of its most recent admin message (unset when there is none).
C11_Watermarks ==
    \A b \in BookingIds :
        /\ bookings[b].last_customer_message = NewestCreatedAt(b, FALSE)
        /\ bookings[b].last_admin_response = NewestCreatedAt(b, TRUE)

\* C12: in every reachable state, also when the customer has never posted,
\* has_unread_messages is true exactly when the booking has an admin message
\* created later than last_customer_message (an unset watermark is earlier
\* than every message).
C12_HasUnread ==
    \A b \in BookingIds :
        has_unread_messages(DB, b)
          <=> \E i \in 1..Len(messages) :
                 /\ messages[i].booking = b
                 /\ messages[i].is_from_admin
                 /\ \/ bookings[b].last_customer_message = None
                    \/ messages[i].created_at > bookings[b].last_customer_message

\* the poller has just answered for an active booking
Polled == ret.op = "booking_updates_api" /\ ret.out # "not_found"

\* C13 as stated: the unread_count the poller returns for an active booking is
\* that booking's unread_count_for_admin.
C13_PollUnreadForAdmin ==
    (Polled /\ ret.out = "ok")
      => ret.poll.unread_count = unread_count_for_admin(DB, ret.b)

\* C13 amended: the unread_count the poller returns for an active booking is
\* the number of its admin-authored messages that have not been marked read
\* (no read_at), whatever unread_count_for_admin is.
C13_PollUnreadOfAdmin ==
    (Polled /\ ret.out = "ok")
      => ret.poll.unread_count =
           Len(SelectSeq(Of(messages, ret.b),
                         LAMBDA m : m.is_from_admin /\ m.read_at = None))

\* C13 witness: a poll that found one unread admin message beside one that was
\* read, while the admin has two customer messages to read.
C13_Witness ==
    /\ Polled /\ ret.out = "ok"
    /\ ret.poll.unread_count = 1
    /\ unread_count_for_admin(DB, ret.b) = 2
    /\ \E i \in 1..Len(messages) : messages[i].is_from_admin /\ messages[i].is_read

\* C14: new_messages is the number of the booking's messages, of either
\* direction, created strictly later than the last_check supplied; a poll right
\* after the creation of the booking with last_check = its creation time
\* returns 1, the welcome message.
C14_NewMessages ==
    (Polled /\ ret.out = "ok" /\ ret.poll.last_check.fmt = "iso")
      => LET t == ret.poll.last_check.t
             later == {i \in 1..Len(messages) : /\ messages[i].booking = ret.b
                                                /\ t < messages[i].created_at}
         IN /\ ret.poll.new_messages = Cardinality(later)
            /\ (served = 1 /\ t = bookings[ret.b].created_at)
                 => ret.poll.new_messages = 1

\* C14 witness: scenario C, and a poll whose last_check is the very moment of
\* the newest message.
C14_Witness ==
    /\ Polled /\ ret.out = "ok" /\ ret.poll.last_check.fmt = "iso"
    /\ \/ /\ served = 1
          /\ ret.poll.last_check.t = bookings[ret.b].created_at
          /\ ret.poll.new_messages = 1
       \/ /\ Len(messages) > 1
          /\ ret.poll.last_check.t = messages[Len(messages)].created_at
          /\ ret.poll.new_messages = 0

\* C15: a poll of an active booking whose last_check is missing or cannot be
\* parsed never fails and answers as a poll with last_check = updated_at does.
C15_PollFallback ==
    (Polled /\ ret.poll.last_check.fmt # "iso")
      => /\ ret.out = "ok"
         /\ ret.poll = PollResult(DB, ret.b, ret.poll.last_check,
                                  bookings[ret.b].updated_at)

\* the requests of the customer's pages and the poller
CustomerOps ==
    {"booking_updates_api", "booking_detail", "schedule_inspection", "schedule_payment"}

\* C16: for an unknown booking id or a booking with is_active = false the
\* poller answers not-found instead of failing, the booking page, the message
\* post, schedule_inspection and schedule_payment answer not-found too, and
\* none of these requests changes a stored booking, message or activity.
C16_NotFound ==
    [][( /\ ret'.op \in CustomerOps
         /\ \/ ret'.b \notin BookingIds
            \/ ~bookings[ret'.b].is_active )
       => /\ ret'.out = "not_found"
          /\ StoreUnchanged]_vars

\* C16 witness: the poller was asked about a cancelled booking.
C16_Witness ==
    /\ ret.op = "booking_updates_api"
    /\ ret.out = "not_found"
    /\ ret.b \in BookingIds
    /\ bookings[ret.b].status = "cancelled"
    /\ ~bookings[ret.b].is_active

\* the creation request names an existing, unsold car, a name and a phone
Creatable(rq) ==
    /\ rq.car_id \in CarIds /\ ~car_sold[rq.car_id]
    /\ rq.name # "" /\ rq.phone # ""

\* C17: creating a booking for an existing, unsold car with a name and a
\* phone number yields a new active booking at interest_shown with exactly one
\* Message, the admin-authored welcome, and exactly one Activity, of type
\* status_change, linked to a new inquiry that is marked converted_to_booking.
C17_Create ==
    [][(ret'.op = "create_booking" /\ Creatable(ret'.rq))
       => LET b == ret'.b
              q == Len(inquiries) + 1
          IN /\ ret'.out = "created"
             /\ b = Len(bookings) + 1
             /\ Len(bookings') = b
             /\ SubSeq(bookings', 1, b - 1) = bookings
             /\ bookings'[b].status = "interest_shown"
             /\ bookings'[b].is_active
             /\ bookings'[b].car = ret'.rq.car_id
             /\ bookings'[b].customer_name = ret'.rq.name
             /\ bookings'[b].customer_phone = ret'.rq.phone
             /\ Len(Of(messages', b)) = 1
             /\ Of(messages', b)[1].is_from_admin
             /\ Of(messages', b)[1].message.kind = "welcome"
             /\ Len(messages') = Len(messages) + 1
             /\ Len(Of(activities', b)) = 1
             /\ Of(activities', b)[1].activity_type = "status_change"
             /\ Len(activities') = Len(activities) + 1
             /\ Len(inquiries') = q
             /\ SubSeq(inquiries', 1, q - 1) = inquiries
             /\ bookings'[b].inquiry = q
             /\ inquiries'[q].converted_to_booking
             /\ inquiries'[q].car = ret'.rq.car_id]_vars

\* C17 witness: scenario A, the second booking of a run.
C17_Witness ==
    /\ ret.op = "create_booking"
    /\ ret.out = "created"
    /\ ret.b = 2
    /\ ret.rq.name = "Ada"
    /\ Len(inquiries) = 2
    /\ Len(messages) > 2

\* a SoldCar record of car c is on file
HasSoldRecord(c) == \E i \in 1..Len(sold_cars) : sold_cars[i].car = c

\* C18 as stated: creation is rejected, and creates nothing, when the car id
\* does not exist, the car is marked sold or a field is missing; and a car that
\* was marked sold at some time, as one with a SoldCar record was, blocks every
\* later booking creation for it.
C18_RejectedForEver ==
    [][ret'.op = "create_booking"
       => /\ ~Creatable(ret'.rq) => (ret'.out # "created" /\ StoreUnchanged)
          /\ (ret'.rq.car_id \in CarIds /\ HasSoldRecord(ret'.rq.car_id))
               => (ret'.out # "created" /\ StoreUnchanged)]_vars

\* C18 amended: creation is rejected, and creates nothing, when the car id
\* does not exist, the car is marked sold at the time of the request or a field
\* is missing; saving a SoldCar record marks its car sold, and the car blocks
\* creation for as long as it stays marked.
C18_RejectedWhileSold ==
    [][/\ (ret'.op = "create_booking" /\ ~Creatable(ret'.rq))
            => /\ ret'.out = (IF ret'.rq.car_id = None \/ ret'.rq.name = ""
                                     \/ ret'.rq.phone = ""
                              THEN "missing_fields"
                              ELSE IF ret'.rq.car_id \notin CarIds
                              THEN "car_not_found"
                              ELSE "car_sold")
               /\ StoreUnchanged
       /\ ret'.op = "save_sold_car"
            => \A c \in CarIds : HasSoldRecord(c)' => car_sold'[c]]_vars

\* C18 witness: a creation was refused for a car whose sale is on record.
C18_Witness ==
    /\ ret.op = "create_booking"
    /\ ret.out = "car_sold"
    /\ HasSoldRecord(ret.rq.car_id)
    /\ Len(bookings) = 1

\* C19: conversion is all or nothing: in every reachable state, also after a
\* storage failure inside create_booking_from_inquiry, every inquiry has its
\* booking and is marked converted_to_booking, and every booking has its
\* inquiry.
C19_AllOrNothing ==
    /\ \A q \in 1..Len(inquiries) :
          /\ inquiries[q].converted_to_booking
          /\ \E b \in BookingIds : bookings[b].inquiry = q
    /\ \A b \in BookingIds : bookings[b].inquiry \in 1..Len(inquiries)

\* the transitions of C20 and whether each emits an admin Message
TransitionOps ==
    {"schedule_inspection", "schedule_payment", "confirm_payment",
     "mark_completed", "advance_to_next_stage"}
EmitsMessage(op) ==
    op \in {"schedule_inspection", "schedule_payment", "confirm_payment"}

\* C20: a storage failure during a transition leaves no partial write: when a
\* transition's request has advanced a booking's status, the Activity it emits,
\* and the admin Message if it emits one, are stored too.
C20_NoPartialWrite ==
    [][\A b \in BookingIds :
         ( /\ ret'.op \in TransitionOps
           /\ bookings'[b].status # bookings[b].status )
         => /\ Len(Of(activities', b)) = Len(Of(activities, b)) + 1
            /\ EmitsMessage(ret'.op)
                 => /\ Len(Of(messages', b)) = Len(Of(messages, b)) + 1
                    /\ Of(messages', b)[Len(Of(messages', b))].is_from_admin
                    /\ bookings'[b].last_admin_response
                         = Of(messages', b)[Len(Of(messages', b))].created_at]_vars

\* C23: for every booking in every state final_price is the negotiated price
\* whenever one is set, zero included, and the car's listed price only when
\* none is set.
C23_FinalPrice ==
    \A b \in BookingIds :
        final_price(bookings[b]) =
            IF bookings[b].negotiated_price # NoPrice
            THEN bookings[b].negotiated_price
            ELSE CarPrice[bookings[b].car]

\* C27: in every reachable state a booking is completed exactly when its free
\* gift is claimed, and free_gift_claimed_date is set exactly when the gift is
\* claimed.
C27_GiftIffCompleted ==
    \A b \in BookingIds :
        /\ (bookings[b].status = "completed") <=> bookings[b].free_gift_claimed
        /\ (bookings[b].free_gift_claimed_date # None) <=> bookings[b].free_gift_claimed

\* C27 witness: a completed booking with its gift claimed and dated, reached
\* by the generic advance.
C27_Witness ==
    /\ ret.op = "advance_to_next_stage"
    /\ ret.out = "True"
    /\ bookings[ret.b].status = "completed"
    /\ bookings[ret.b].free_gift_claimed
    /\ bookings[ret.b].free_gift_claimed_date # None

\* C28: in every reachable state a booking at payment_confirmed or completed
\* has payment_confirmed_date set, whichever path brought it there.
C28_ConfirmedDated ==
    \A b \in BookingIds :
        bookings[b].status \in {"payment_confirmed", "completed"}
          => bookings[b].payment_confirmed_date # None

\* C29: right after an admin-authored message is appended to a booking (the
\* welcome, inspection-confirmation, payment-details and payment-confirmed
\* messages included) unread_count_for_admin of that booking is 0, however
\* many customer messages came before.
C29_AdminMessageClears ==
    [][\A b \in BookingIds' :
         ( /\ Len(messages') = Len(messages) + 1
           /\ messages'[Len(messages')].booking = b
           /\ messages'[Len(messages')].is_from_admin )
         => unread_count_for_admin(DB', b) = 0]_vars

\* C29 witness: the payment-details message was appended after two customer
\* messages that were waiting for the admin.
C29_Witness ==
    /\ ret.op = "schedule_payment"
    /\ ret.out = "scheduled"
    /\ messages[Len(messages)].is_from_admin
    /\ Len(SelectSeq(Of(messages, ret.b), LAMBDA m : ~m.is_from_admin)) = 2
    /\ unread_count_for_admin(DB, ret.b) = 0

\* C30: an active booking's updated_at is never earlier than the created_at of
\* any of its messages, so a poll that falls back to updated_at (last_check
\* missing or not a timestamp) reports new_messages = 0.
C30_UpdatedAfterMessages ==
    /\ \A i \in 1..Len(messages) :
          bookings[messages[i].booking].is_active
            => messages[i].created_at <= bookings[messages[i].booking].updated_at
    /\ (Polled /\ ret.out = "ok" /\ ret.poll.last_check.fmt # "iso")
          => ret.poll.new_messages = 0

\* C30 witness: a poll without last_check on a booking with three messages.
C30_Witness ==
    /\ Polled /\ ret.out = "ok"
    /\ ret.poll.last_check.fmt = "missing"
    /\ Len(Of(messages, ret.b)) = 3
    /\ ret.poll.new_messages = 0

\* C22: viewing the booking page marks every unread admin-authored message of
\* that booking read (is_read true, read_at set), touches no customer message
\* and no message of another booking, and is idempotent: with no unread admin
\* message nothing changes, read_at of the messages read before included.
C22_MarkRead ==
    [][(ret'.op = "booking_detail" /\ ret'.out = "rendered")
       => /\ Len(messages') = Len(messages)
          /\ \A i \in 1..Len(messages) :
                IF /\ messages[i].booking = ret'.b
                   /\ messages[i].is_from_admin
                   /\ ~messages[i].is_read
                THEN /\ messages'[i].is_read
                     /\ messages'[i].read_at > now
                     /\ messages'[i] = [messages[i] EXCEPT
                                          !.is_read = TRUE,
                                          !.read_at = messages'[i].read_at]
                ELSE messages'[i] = messages[i]
          /\ UNCHANGED <<bookings, activities, inquiries>>
          /\ (\A i \in 1..Len(messages) :
                 (messages[i].booking = ret'.b /\ messages[i].is_from_admin)
                   => messages[i].is_read)
               => StoreUnchanged]_vars

\* C22 witness: the page of a booking was viewed a second time with nothing new
\* to read, while the other booking has an unread admin message.
C22_Witness ==
    /\ ret.op = "booking_detail"
    /\ ret.out = "rendered"
    /\ ~ret.changed
    /\ \E i \in 1..Len(messages) :
          /\ messages[i].booking = ret.b
          /\ messages[i].is_from_admin /\ messages[i].is_read
          /\ messages[i].read_at # None
    /\ \E i \in 1..Len(messages) :
          /\ messages[i].booking # ret.b
          /\ messages[i].is_from_admin /\ ~messages[i].is_read

\* a POST to the page of an active booking whose text is empty after trimming
BlankPost ==
    /\ ret'.op = "booking_detail"
    /\ ret'.out # "not_found"
    /\ ret'.input.method = "POST"
    /\ ret'.input.text = ""

C25_AppendOnly ==
    [][/\ Len(messages') >= Len(messages)
       /\ \A i \in 1..Len(messages) :
             /\ i <= Len(messages')
                  => /\ messages'[i].booking = messages[i].booking
                     /\ messages'[i].message = messages[i].message
                     /\ messages'[i].is_from_admin = messages[i].is_from_admin
                     /\ messages'[i].price_offer = messages[i].price_offer
                     /\ messages'[i].created_at = messages[i].created_at
                     /\ messages[i].is_read =>
                            /\ messages'[i].is_read
                            /\ messages'[i].read_at = messages[i].read_at
                     /\ messages'[i].is_read = (messages'[i].read_at # None)
       /\ \A i, j \in 1..Len(messages') :
             i < j => messages'[i].created_at < messages'[j].created_at]_vars

\* C21: a cancellation that ran while a schedule_inspection request was
\* between its load and its save is kept: when the request finishes, the
\* booking is cancelled and inactive, as after either serial order of the two.
C21_CancelKept ==
    [][(inflight.op = "schedule_inspection" /\ inflight'.op = ""
        /\ bookings[inflight.b].status = "cancelled")
       => /\ bookings'[inflight.b].status = "cancelled"
          /\ ~bookings'[inflight.b].is_active]_vars

\* C26: a customer post that finishes after an admin message was created on
\* the same booking leaves last_admin_response as stored and sets
\* last_customer_message to the created_at of the message it appended.
C26_NoStaleWatermark ==
    [][(inflight.op = "booking_detail" /\ inflight'.op = "")
       => /\ bookings'[inflight.b].last_admin_response =
                bookings[inflight.b].last_admin_response
          /\ \E i \in 1..Len(messages') :
                /\ i > Len(messages)
                /\ ~messages'[i].is_from_admin
                /\ bookings'[inflight.b].last_customer_message =
                      messages'[i].created_at]_vars
====
